---- MODULE Spec2Model ----
(***************************************************************************)
(* Code Structure Analyzer: the source-structure extractor, the class      *)
(* splitter and the main window with its analysis workers.                 *)
(*                                                                         *)
(* Spec is one call of CodeAnalyzer.analyze_file, SpecSplit one press of   *)
(* the split button on a selected file, SpecGui the window as a whole.     *)
(*                                                                         *)
(* The repository ships the program twice: the package started from        *)
(* main_window.py (src/code_analyzer.py, src/code_element.py,              *)
(* src/analysis_worker.py) and the single-file scripts/generator.py.  The  *)
(* two differ in the declaration of CodeElement; the variable `program`    *)
(* says which of them runs.                                                *)
(*                                                                         *)
(* A Python source text is represented by what ast.parse makes of it: the  *)
(* statements of the tree in source order, each with the index of the      *)
(* statement whose body holds it (0 is the Module); a text that is not     *)
(* Python ends in a statement of kind "Invalid", the place where the       *)
(* parser gives up.  A TypeScript source text is represented by            *)
(* content.split('\n'): a non-empty sequence of lines, each line a         *)
(* sequence of tokens separated by blanks.                                 *)
(***************************************************************************)
EXTENDS Integers, Sequences, FiniteSets, TLC

VARIABLES program, file_path, readable, content, pc, elements, fault, log

\* The main window and what is around it: its attributes and widgets, the
\* workers it started, the message boxes it showed, and the files on disk.
VARIABLES current_file, start_enabled, workers, app, tree_widget, metrics,
          file_info, progress_bar, boxes, disk, unwritable, writes, splits

callVars == <<program, file_path, readable, content, pc, elements, fault, log>>

windowVars == <<current_file, start_enabled, workers, app, tree_widget, metrics,
                file_info, progress_bar, boxes, disk, unwritable, writes, splits>>

vars == <<callVars, windowVars>>

\* ---------------------------------------------------------------- bounds

\* Most AST nodes (statements and decorator expressions) of a Python source.
MaxAstNodes == 3

\* Most lines of a TypeScript source (after split('\n')).
MaxLines == 3

\* Most AST nodes, and most lines, of a source whose file name selects no
\* strategy, or the same strategy as a.py or a.ts under another name.
MaxOther == 1

\* ------------------------------------------------------- generic helpers

Range(s) == {s[i] : i \in 1..Len(s)}

RECURSIVE Flatten(_)
Flatten(ss) == IF ss = <<>> THEN <<>> ELSE Head(ss) \o Flatten(Tail(ss))

SeqsUpTo(S, n) == UNION {[1..k -> S] : k \in 0..n}

\* ------------------------------------------------ Python sources (inputs)

NameDeco(id) == [kind |-> "Name", id |-> id, args |-> <<>>]
CallDeco(id, args) == [kind |-> "Call", id |-> id, args |-> args]
AttrDeco(id) == [kind |-> "Attribute", id |-> id, args |-> <<>>]

\* @foo, @baz, @bar(x), @a.b
Decorators == {NameDeco("foo"), NameDeco("baz"), CallDeco("bar", <<"x">>), AttrDeco("a")}

\* The decorator lists a class may carry: the class itself is one AST node.
DecoratorLists == SeqsUpTo(Decorators, MaxAstNodes - 1)

Stmt(kind, name, names, decos, parent) ==
    [kind |-> kind, name |-> name, names |-> names,
     decorator_list |-> decos, parent |-> parent]

IsContainer(nd) == nd.kind \in {"ClassDef", "FunctionDef", "AsyncFunctionDef"}

\* The statements a new statement may be put into so that the sequence stays
\* in source order: the Module, or the last statement or one of its ancestors.
RECURSIVE OpenBodies(_, _)
OpenBodies(body, i) ==
    IF i = 0 THEN {0}
    ELSE (IF IsContainer(body[i]) THEN {i} ELSE {}) \cup OpenBodies(body, body[i].parent)

\* The statements that may follow `body` when `budget` AST nodes are left;
\* nothing follows the place where the text stops being Python.
NextStmts(body, budget) ==
    LET parents == OpenBodies(body, Len(body))
    IN  IF body # <<>> /\ body[Len(body)].kind = "Invalid" THEN {}
        ELSE
        {Stmt("Invalid", "", <<>>, <<>>, p) : p \in parents} \cup
        {Stmt("ClassDef", n, <<>>, d, p) :
            n \in {"A", "B"}, d \in {l \in DecoratorLists : Len(l) <= budget - 1}, p \in parents}
        \cup {Stmt("FunctionDef", n, <<>>, <<>>, p) : n \in {"f", "g"}, p \in parents}
        \cup {Stmt("AsyncFunctionDef", "h", <<>>, <<>>, p) : p \in parents}
        \cup {Stmt("Import", "", ns, <<>>, p) : ns \in {<<"os", "re">>}, p \in parents}
        \cup {Stmt("ImportFrom", "typing", <<"List", "Dict">>, <<>>, p) : p \in parents}

PyContent(body) == [form |-> "python", body |-> body, lines |-> <<>>]

\* c is a Python source that starts with `body` and has at most `budget`
\* AST nodes more.
RECURSIVE IsPySource(_, _, _)
IsPySource(c, body, budget) ==
    \/ c = PyContent(body)
    \/ /\ budget > 0
       /\ \E nd \in NextStmts(body, budget) :
             IsPySource(c, Append(body, nd), budget - 1 - Len(nd.decorator_list))

\* --------------------------------------------------- the ast library view

\* A plausible slip: a parser that keeps what it read before the place
\* where the text stops being Python.
ast_parse_prefix(c) ==
    [raised |-> "none",
     tree   |-> SelectSeq(c.body, LAMBDA nd : nd.kind # "Invalid")]

\* ast.parse(content): the tree, or SyntaxError for a text that is not Python.
ast_parse(c) ==
    IF \A k \in 1..Len(c.body) : c.body[k].kind # "Invalid"
    THEN [raised |-> "none", tree |-> c.body]
    ELSE [raised |-> "SyntaxError", tree |-> <<>>]

\* ast.iter_child_nodes restricted to statements: the body of node i (0 is
\* the Module), in source order.
RECURSIVE ChildrenFrom(_, _, _)
ChildrenFrom(tree, i, k) ==
    IF k > Len(tree) THEN <<>>
    ELSE (IF tree[k].parent = i THEN <<k>> ELSE <<>>) \o ChildrenFrom(tree, i, k + 1)

Children(tree, i) == ChildrenFrom(tree, i, 1)

\* ast.walk: breadth-first, a queue of nodes; each popped node is yielded
\* and its children are appended to the queue.
RECURSIVE WalkQueue(_, _)
WalkQueue(tree, todo) ==
    IF todo = <<>> THEN <<>>
    ELSE <<Head(todo)>> \o WalkQueue(tree, Tail(todo) \o Children(tree, Head(todo)))

\* The statements of the subtree of node i in ast.walk order (i itself
\* included unless it is the Module, which is no statement).
ast_walk(tree, i) ==
    LET order == WalkQueue(tree, <<i>>)
    IN  IF i = 0 THEN Tail(order) ELSE order

\* node.lineno: every decorator and every statement takes one line; the
\* lineno of a decorated class is the line of its class keyword.
RECURSIVE LinesBefore(_, _)
LinesBefore(tree, i) ==
    IF i = 0 THEN 0
    ELSE LinesBefore(tree, i - 1) + Len(tree[i].decorator_list) + 1

lineno(tree, i) == LinesBefore(tree, i)

\* ------------------------------------------------------------ CodeElement

Programs == {"main_window", "generator"}

\* CodeElement(name=..., type=..., ...).  scripts/generator.py declares the
\* class a @dataclass, which generates the keyword constructor.
\* src/code_element.py declares the same annotations on a plain class, whose
\* constructor is object's: called with arguments it raises TypeError.
CodeElement(prog, name, type, decorators, imports, methods, line_number, dependencies) ==
    IF prog = "generator"
    THEN [raised |-> "none",
          value  |-> [name |-> name, type |-> type, decorators |-> decorators,
                      imports |-> imports, methods |-> methods,
                      line_number |-> line_number, dependencies |-> dependencies]]
    ELSE [raised |-> "TypeError", value |-> <<>>]

\* --------------------------------------------------- the Python strategy

\* What one Import / ImportFrom node adds to the import list: every alias
\* name of an `import`, or the one text "from M import a, b" (kept as the
\* tuple of its words).
ImportEntries(nd) ==
    IF nd.kind = "Import" THEN [k \in 1..Len(nd.names) |-> <<nd.names[k]>>]
    ELSE IF nd.kind = "ImportFrom" THEN <<(<<"from", nd.name, "import">> \o nd.names)>>
    ELSE <<>>

RECURSIVE ImportsOf(_, _)
ImportsOf(tree, order) ==
    IF order = <<>> THEN <<>>
    ELSE ImportEntries(tree[Head(order)]) \o ImportsOf(tree, Tail(order))

\* _get_imports(tree): walks the WHOLE tree.
get_imports(tree) == ImportsOf(tree, ast_walk(tree, 0))

\* A plausible slip: the imports found inside the class only.
class_imports_subtree(tree, i) == ImportsOf(tree, ast_walk(tree, i))

\* imports=self._get_imports(tree), as evaluated for the class at node i.
class_imports(tree, i) == get_imports(tree)

\* The ast.Name nodes of one decorator expression: foo -> foo,
\* bar(x) -> bar and x, a.b -> a.
DecoratorNames(d) == {d.id} \cup Range(d.args)

\* _get_dependencies(node): the ids of the ast.Name nodes of the subtree,
\* through set(): duplicates dropped, order not kept.  The sources here
\* hold ast.Name nodes in their decorators only.
get_dependencies(tree, i) ==
    UNION {DecoratorNames(d) :
             d \in UNION {Range(tree[k].decorator_list) : k \in Range(ast_walk(tree, i))}}

\* A plausible slip: the name of a called decorator taken as well.
RECURSIVE NameDecorators_calls(_)
NameDecorators_calls(ds) ==
    IF ds = <<>> THEN <<>>
    ELSE (IF Head(ds).kind \in {"Name", "Call"} THEN <<Head(ds).id>> ELSE <<>>)
         \o NameDecorators_calls(Tail(ds))

\* [d.id for d in node.decorator_list if isinstance(d, ast.Name)]
RECURSIVE NameDecorators(_)
NameDecorators(ds) ==
    IF ds = <<>> THEN <<>>
    ELSE (IF Head(ds).kind = "Name" THEN <<Head(ds).id>> ELSE <<>>)
         \o NameDecorators(Tail(ds))

\* [m.name for m in node.body if isinstance(m, ast.FunctionDef)]
RECURSIVE FunctionDefNames(_, _)
FunctionDefNames(tree, kids) ==
    IF kids = <<>> THEN <<>>
    ELSE (IF tree[Head(kids)].kind = "FunctionDef" THEN <<tree[Head(kids)].name>> ELSE <<>>)
         \o FunctionDefNames(tree, Tail(kids))

\* The body of the for loop of _analyze_python from position k of the walk
\* on; the first exception leaves the loop for the handler, which prints it
\* and keeps what was appended before.
RECURSIVE PythonLoop(_, _, _, _, _)
PythonLoop(prog, tree, order, k, acc) ==
    IF k > Len(order) THEN [elements |-> acc, log |-> <<>>]
    ELSE LET i  == order[k]
             nd == tree[i]
         IN  IF nd.kind # "ClassDef" THEN PythonLoop(prog, tree, order, k + 1, acc)
             ELSE LET e == CodeElement(prog, nd.name, "class",
                                       NameDecorators(nd.decorator_list),
                                       class_imports(tree, i),
                                       FunctionDefNames(tree, Children(tree, i)),
                                       lineno(tree, i),
                                       get_dependencies(tree, i))
                  IN  IF e.raised # "none"
                      THEN [elements |-> acc, log |-> <<e.raised>>]
                      ELSE PythonLoop(prog, tree, order, k + 1, Append(acc, e.value))

\* A plausible slip: the parse left outside the try block.
analyze_python_unguarded(prog, c) ==
    LET parsed == ast_parse(c)
    IN  IF parsed.raised # "none"
        THEN [raised |-> parsed.raised, elements |-> <<>>, log |-> <<>>]
        ELSE LET r == PythonLoop(prog, parsed.tree, ast_walk(parsed.tree, 0), 1, <<>>)
             IN  [raised |-> "none", elements |-> r.elements, log |-> r.log]

\* _analyze_python(content): never raises (except Exception); `log` is what
\* the handler prints.
analyze_python(prog, c) ==
    LET parsed == ast_parse(c)
    IN  IF parsed.raised # "none"
        THEN [raised |-> "none", elements |-> <<>>, log |-> <<parsed.raised>>]
        ELSE LET r == PythonLoop(prog, parsed.tree, ast_walk(parsed.tree, 0), 1, <<>>)
             IN  [raised |-> "none", elements |-> r.elements, log |-> r.log]

\* ------------------------------------------- TypeScript sources (inputs)

\* self.patterns['angular'], in the order the dict was written: the key and
\* the text a line must contain for re.search(pattern, line) to match.
AngularPatterns ==
    << [key |-> "component", text |-> "@Component("],
       [key |-> "service",   text |-> "@Injectable("],
       [key |-> "module",    text |-> "@NgModule("],
       [key |-> "pipe",      text |-> "@Pipe("] >>

SignatureTexts == {AngularPatterns[j].text : j \in 1..Len(AngularPatterns)}

\* Tokens matched by \w+ as a whole.
WordTokens == {"export", "class", "Widget", "Foo", "import", "from", "X", "private", "load"}

\* The lines a source is made of; " " is leading white space.
TsLines ==
    { <<>>,
      <<"@Component(">>,
      <<"@Injectable(">>,
      <<"@NgModule(">>,
      <<" ", "@Pipe(">>,
      <<"@Component(", "@Injectable(">>,
      <<"export", "class", "Widget", "{">>,
      <<"class", "Foo", "{">>,
      <<" ", "import", "X">>,
      <<"private", "load", "(", ")", "{">> }

TextContent(lines) == [form |-> "text", body |-> <<>>, lines |-> lines]

\* c is a text of at most n lines.
IsTextSource(c, n) == \E k \in 1..n : \E ls \in [1..k -> TsLines] : c = TextContent(ls)

\* ------------------------------------------------ the TypeScript strategy

\* str.strip(): white space at both ends removed.
RECURSIVE strip(_)
strip(line) ==
    IF line = <<>> THEN <<>>
    ELSE IF Head(line) = " " THEN strip(Tail(line))
    ELSE IF line[Len(line)] = " " THEN strip(SubSeq(line, 1, Len(line) - 1))
    ELSE line

\* The tokens of a text without the white space between them (\s+, \s*).
NonBlank(toks) == SelectSeq(toks, LAMBDA t : t # " ")

\* re.search(pattern, line) for a pattern of the table.
Matches(pat, line) == pat.text \in Range(line)

\* re.search(r'class\s+(\w+)|export\s+class\s+(\w+)', line) from token p on:
\* the leftmost position where one of the alternatives matches.
RECURSIVE NameFrom(_, _)
NameFrom(toks, p) ==
    IF p > Len(toks) THEN "Unknown"
    ELSE IF toks[p] = "class" /\ p + 1 <= Len(toks) /\ toks[p + 1] \in WordTokens
         THEN toks[p + 1]
    ELSE IF /\ toks[p] = "export" /\ p + 2 <= Len(toks)
            /\ toks[p + 1] = "class" /\ toks[p + 2] \in WordTokens
         THEN toks[p + 2]
    ELSE NameFrom(toks, p + 1)

\* _extract_name(line)
extract_name(line) == NameFrom(NonBlank(line), 1)

\* _extract_imports(content): the stripped lines that start with 'import '
\* or 'from ' (the blank after the word asks for a second token).
RECURSIVE ImportLines(_)
ImportLines(lines) ==
    IF lines = <<>> THEN <<>>
    ELSE LET t == strip(Head(lines))
         IN  (IF Len(t) >= 2 /\ t[1] \in {"import", "from"} THEN <<t>> ELSE <<>>)
             \o ImportLines(Tail(lines))

extract_imports(c) == ImportLines(c.lines)

\* The index of the first ")" of toks at or after p, 0 when there is none.
RECURSIVE FirstClose(_, _)
FirstClose(toks, p) ==
    IF p > Len(toks) THEN 0
    ELSE IF toks[p] = ")" THEN p
    ELSE FirstClose(toks, p + 1)

\* \w+\s*\([^)]*\)\s*{ with the \w+ starting at token q: the index of the
\* closing "{", or 0.  A signature text such as "@Component(" ends in a
\* word and an opening parenthesis itself (withSig: the match may start
\* inside it, after the "@").
CallEnd(toks, q, withSig) ==
    LET after == IF q > Len(toks) THEN 0
                 ELSE IF withSig /\ toks[q] \in SignatureTexts THEN q + 1
                 ELSE IF /\ toks[q] \in WordTokens /\ q + 1 <= Len(toks)
                         /\ toks[q + 1] = "(" THEN q + 2
                 ELSE 0
        close == IF after = 0 THEN 0 ELSE FirstClose(toks, after)
    IN  IF close # 0 /\ close + 1 <= Len(toks) /\ toks[close + 1] = "{"
        THEN close + 1 ELSE 0

\* The whole method pattern at token p: the access modifier is optional.
MethodEnd(toks, p) ==
    LET withModifier == IF toks[p] \in {"public", "private", "protected"}
                        THEN CallEnd(toks, p + 1, FALSE) ELSE 0
    IN  IF withModifier # 0 THEN withModifier ELSE CallEnd(toks, p, TRUE)

\* re.finditer: leftmost matches, the search resumed behind each match.  A
\* match is kept as its tokens; one that starts inside a signature text
\* keeps that token whole.
RECURSIVE MethodMatches(_, _)
MethodMatches(toks, p) ==
    IF p > Len(toks) THEN <<>>
    ELSE LET e == MethodEnd(toks, p)
         IN  IF e = 0 THEN MethodMatches(toks, p + 1)
             ELSE <<SubSeq(toks, p, e)>> \o MethodMatches(toks, e + 1)

\* _extract_methods(content): over the entire content; \s* spans line ends.
extract_methods(c) == MethodMatches(NonBlank(Flatten(c.lines)), 1)

\* A plausible slip: imports and methods taken from the element's own part
\* of the file, the lines from its signature on.
RECURSIVE TypescriptLoop_local(_, _, _, _, _)
TypescriptLoop_local(prog, c, i, j, acc) ==
    IF i > Len(c.lines) THEN [raised |-> "none", elements |-> acc]
    ELSE IF j > Len(AngularPatterns) THEN TypescriptLoop_local(prog, c, i + 1, 1, acc)
    ELSE IF ~Matches(AngularPatterns[j], c.lines[i])
         THEN TypescriptLoop_local(prog, c, i, j + 1, acc)
    ELSE IF i + 1 > Len(c.lines) THEN [raised |-> "IndexError", elements |-> <<>>]
    ELSE LET own == [c EXCEPT !.lines = SubSeq(c.lines, i, Len(c.lines))]
             e   == CodeElement(prog, extract_name(c.lines[i + 1]),
                                AngularPatterns[j].key,
                                <<strip(c.lines[i])>>,
                                extract_imports(own),
                                extract_methods(own),
                                i,
                                {})
         IN  IF e.raised # "none" THEN [raised |-> e.raised, elements |-> <<>>]
             ELSE TypescriptLoop_local(prog, c, i, j + 1, Append(acc, e.value))

\* The two loops of _analyze_typescript, at line i (counted from 1) and
\* table entry j.  Nothing is caught: an IndexError of lines[i+1] or a
\* TypeError of the constructor ends the call.
RECURSIVE TypescriptLoop(_, _, _, _, _)
TypescriptLoop(prog, c, i, j, acc) ==
    IF i > Len(c.lines) THEN [raised |-> "none", elements |-> acc]
    ELSE IF j > Len(AngularPatterns) THEN TypescriptLoop(prog, c, i + 1, 1, acc)
    ELSE IF ~Matches(AngularPatterns[j], c.lines[i])
         THEN TypescriptLoop(prog, c, i, j + 1, acc)
    ELSE IF i + 1 > Len(c.lines) THEN [raised |-> "IndexError", elements |-> <<>>]
    ELSE LET e == CodeElement(prog, extract_name(c.lines[i + 1]),
                              AngularPatterns[j].key,
                              <<strip(c.lines[i])>>,
                              extract_imports(c),
                              extract_methods(c),
                              i,
                              {})
         IN  IF e.raised # "none" THEN [raised |-> e.raised, elements |-> <<>>]
             ELSE TypescriptLoop(prog, c, i, j + 1, Append(acc, e.value))

\* _analyze_typescript(content)
analyze_typescript(prog, c) == TypescriptLoop(prog, c, 1, 1, <<>>)

\* ------------------------------------------------------------- the files

\* A file path is given by the base name of the file: its pieces between
\* dots.  <<"a", "py">> is a.py, <<"a">> is a, <<"", "py">> is .py and
\* <<"a", "py", "">> is a.py. (with a trailing dot).
FileNames ==
    { <<"a", "py">>, <<"a", "tar", "py">>,
      <<"a", "ts">>, <<"a", "tsx">>,
      <<"a", "js">>, <<"a", "jsx">>,
      <<"a">>, <<"a", "PY">>, <<"", "py">>, <<"a", "py", "">>, <<"a", "txt">> }

\* The two names under which the sources of full size are analysed.
MainNames == { <<"a", "py">>, <<"a", "ts">> }

\* A plausible slip: everything behind the last dot, a leading dot included
\* (path[path.rfind('.'):]).
splitext_rfind(path) ==
    IF Len(path) = 1 THEN <<>> ELSE <<".", path[Len(path)]>>

\* os.path.splitext(path)[1]: the text from the last dot of the base name
\* on, the dot included, kept as <<".", suffix>>; empty (<<>>) when there is
\* no dot or only leading dots before it.
splitext(path) ==
    LET n == Len(path)
    IN  IF n = 1 \/ (\A k \in 1..(n - 1) : path[k] = "") THEN <<>>
        ELSE <<".", path[n]>>

Ext(suffix) == <<".", suffix>>

\* The content of an unreadable file is never seen.
NoContent == TextContent(<<(<<>>)>>)

\* The names by the kind of file they stand for.
PyNames == { <<"a", "py">>, <<"a", "tar", "py">> }
TsNames == { <<"a", "ts">>, <<"a", "tsx">> }
JsNames == { <<"a", "js">>, <<"a", "jsx">> }
OtherNames == FileNames \ (PyNames \cup TsNames \cup JsNames)

\* A Python file is given as a tree and a TypeScript file as lines, the
\* form their strategy reads; every other file as either.

IsFile(f, r, c) ==
    \/ f = <<"a", "py">> /\ r = TRUE /\ IsPySource(c, <<>>, MaxAstNodes)
    \/ f = <<"a", "ts">> /\ r = TRUE /\ IsTextSource(c, MaxLines)
    \/ /\ f \in (FileNames \ MainNames) \ TsNames
       /\ r = TRUE
       /\ IsPySource(c, <<>>, MaxOther)
    \/ /\ f \in (FileNames \ MainNames) \ PyNames
       /\ r = TRUE
       /\ IsTextSource(c, MaxOther)
    \/ f \in FileNames /\ r = FALSE /\ c = NoContent

\* ---------------------------------------------------------- analyze_file

\* _read_file(file_path): open() and read() raise for a file that is
\* missing, protected or not UTF-8; nothing on the way catches it.
read_file(isReadable, c) ==
    IF isReadable THEN [raised |-> "none", text |-> c]
    ELSE [raised |-> "OSError", text |-> NoContent]

\* analyze_file(file_path): what the call returns ("raised" is "none") or
\* the exception that leaves it, and what was printed on the way.
analyze_file(prog, path, isReadable, c) ==
    LET rd       == read_file(isReadable, c)
        file_ext == splitext(path)
    IN  IF rd.raised # "none"
        THEN [raised |-> rd.raised, elements |-> <<>>, log |-> <<>>]
        ELSE IF file_ext \in {Ext("py")}
        THEN analyze_python(prog, rd.text)
        ELSE IF file_ext \in {Ext("ts"), Ext("tsx")}
        THEN LET r == analyze_typescript(prog, rd.text)
             IN  [raised |-> r.raised, elements |-> r.elements, log |-> <<>>]
        ELSE IF file_ext \in {Ext("js"), Ext("jsx")}
        \* self._analyze_javascript: no such attribute is defined anywhere.
        THEN [raised |-> "AttributeError", elements |-> <<>>, log |-> <<>>]
        ELSE [raised |-> "none", elements |-> <<>>, log |-> <<>>]

\* ------------------------------------------------ Python sources as text

\* A text is a sequence of lines; a line is its indentation (in levels) and
\* its words.  The empty string is the text of one line without words.
Line(indent, toks) == [indent |-> indent, toks |-> toks]

EmptyString == <<Line(0, <<>>)>>

\* "\n".join(parts): the lines of the parts, one part after the other.
Join(parts) == Flatten(parts)

RECURSIVE Depth(_, _)
Depth(tree, i) ==
    IF tree[i].parent = 0 THEN 0 ELSE 1 + Depth(tree, tree[i].parent)

DecoText(d) ==
    IF d.kind = "Call" THEN <<"@", d.id, "(">> \o d.args \o <<")">>
    ELSE IF d.kind = "Attribute" THEN <<"@", d.id, ".", "b">>
    ELSE <<"@", d.id>>

StmtText(nd) ==
    IF nd.kind = "ClassDef" THEN <<"class", nd.name>>
    ELSE IF nd.kind = "FunctionDef" THEN <<"def", nd.name>>
    ELSE IF nd.kind = "AsyncFunctionDef" THEN <<"async", "def", nd.name>>
    ELSE IF nd.kind = "Import" THEN <<"import">> \o nd.names
    ELSE IF nd.kind = "ImportFrom" THEN <<"from", nd.name, "import">> \o nd.names
    ELSE <<"?">>

\* The lines of statement k: one per decorator, then the statement's own.
StmtLines(tree, k) ==
    [j \in 1..Len(tree[k].decorator_list) |->
        Line(Depth(tree, k), DecoText(tree[k].decorator_list[j]))]
    \o <<Line(Depth(tree, k), StmtText(tree[k]))>>

RECURSIVE SourceFrom(_, _)
SourceFrom(tree, k) ==
    IF k > Len(tree) THEN <<>> ELSE StmtLines(tree, k) \o SourceFrom(tree, k + 1)

\* The text that ast.parse read the tree from.
SourceText(tree) == SourceFrom(tree, 1)

RECURSIVE IsAncestor(_, _, _)
IsAncestor(tree, i, k) ==
    /\ k # 0
    /\ \/ tree[k].parent = i
       \/ IsAncestor(tree, i, tree[k].parent)

\* node.end_lineno: the line of the last statement inside node i.
end_lineno(tree, i) ==
    LET inside == {k \in i..Len(tree) : k = i \/ IsAncestor(tree, i, k)}
    IN  lineno(tree, CHOOSE k \in inside : \A m \in inside : m <= k)

\* A plausible slip: the segment from the first decorator line on.
get_source_segment_decorated(source, tree, i) ==
    LET first == lineno(tree, i) - Len(tree[i].decorator_list)
        last  == end_lineno(tree, i)
    IN  [k \in 1..(last - first + 1) |->
            IF k = 1 THEN Line(0, source[first].toks) ELSE source[first + k - 1]]

\* ast.get_source_segment(source, node): the lines lineno..end_lineno of the
\* source, the first of them from the node's column on (its indentation is
\* cut off), the others whole.
get_source_segment(source, tree, i) ==
    LET first == lineno(tree, i)
        last  == end_lineno(tree, i)
    IN  [k \in 1..(last - first + 1) |->
            IF k = 1 THEN Line(0, source[first].toks) ELSE source[first + k - 1]]

\* ------------------------------------------------------ the class splitter

\* _get_imported_names(node): alias.name of every alias, for both kinds.
get_imported_names(nd) ==
    IF nd.kind \in {"Import", "ImportFrom"} THEN nd.names ELSE <<>>

\* The words of the model's texts that hold an imported name inside them
\* without being it: "re" in "Store".
ProperSubstrings == { <<"re", "Store">> }

\* A plausible slip: the name has to be a whole word of the text.
Contains_word(text, name) ==
    \E k \in 1..Len(text) : \E t \in 1..Len(text[k].toks) : text[k].toks[t] = name

\* name in text (str.__contains__): the name is, or is inside, a word.
Contains(text, name) ==
    \E k \in 1..Len(text) : \E t \in 1..Len(text[k].toks) :
        \/ text[k].toks[t] = name
        \/ <<name, text[k].toks[t]>> \in ProperSubstrings

RECURSIVE ClassImportsLoop(_, _, _, _, _)
ClassImportsLoop(source, tree, order, k, class_content) ==
    IF k > Len(order) THEN <<>>
    ELSE LET nd == tree[order[k]]
             import_content == get_source_segment(source, tree, order[k])
         IN  (IF /\ nd.kind \in {"Import", "ImportFrom"}
                 /\ \E n \in Range(get_imported_names(nd)) : Contains(class_content, n)
              THEN <<import_content>> ELSE <<>>)
             \o ClassImportsLoop(source, tree, order, k + 1, class_content)

\* _get_class_imports(source, class_node): the texts of the import
\* statements, in ast.walk order, of which a name is in the class's text.
get_class_imports(source, tree, i) ==
    ClassImportsLoop(source, tree, ast_walk(tree, 0), 1,
                     get_source_segment(source, tree, i))

\* No file name: the value of an attribute that does not exist yet.
Unset == <<>>

\* str.lower() on the class names of the model.
lower(name) ==
    IF name = "A" THEN "a" ELSE IF name = "B" THEN "b"
    ELSE IF name = "Store" THEN "store" ELSE name

\* path.endswith('.py')
endswith_py(path) == Len(path) >= 2 /\ path[Len(path)] = "py"

\* os.path.splitext(os.path.basename(path))[0]: the pieces before the
\* extension, all of them when splitext finds no extension.
splitext_root(path) ==
    IF splitext(path) = <<>> THEN path ELSE SubSeq(path, 1, Len(path) - 1)

\* A plausible slip: the output named after the source file alone.
new_file_path_unnamed(path, className) ==
    splitext_root(path) \o <<"py">>

\* f"{base_name}_{class_node.name.lower()}.py" in the directory of the
\* source file.
new_file_path(path, className) ==
    LET base_name == splitext_root(path)
        n         == Len(base_name)
    IN  SubSeq(base_name, 1, n - 1)
        \o <<base_name[n] \o "_" \o lower(className), "py">>

\* What a file written by the splitter holds.
WrittenContent(text) == [form |-> "written", body |-> <<>>, lines |-> text]

DiskFile(isReadable, c) == [readable |-> isReadable, content |-> c]

\* The disk after open(path, 'w') and write(text).
WriteFile(d, path, text) ==
    [p \in DOMAIN d \cup {path} |->
        IF p = path THEN DiskFile(TRUE, WrittenContent(text)) ELSE d[p]]

Box(kind, about) == [kind |-> kind, about |-> about]

\* A plausible slip: the first class that fails ends the loop.
RECURSIVE SplitLoop_stops(_, _, _, _, _, _, _)
SplitLoop_stops(path, noWrite, source, tree, classes, k, st) ==
    IF k > Len(classes) THEN st
    ELSE
    LET i             == classes[k]
        class_content == get_source_segment(source, tree, i)
        imports       == get_class_imports(source, tree, i)
        new_content   == Join(imports \o <<EmptyString, class_content>>)
        target        == new_file_path(path, tree[i].name)
        attempt       == [node |-> i, path |-> target, text |-> new_content,
                          ok |-> target \notin noWrite]
    IN  IF attempt.ok
        THEN SplitLoop_stops(path, noWrite, source, tree, classes, k + 1,
                 [disk   |-> WriteFile(st.disk, target, new_content),
                  boxes  |-> st.boxes,
                  writes |-> Append(st.writes, attempt)])
        ELSE [disk   |-> st.disk,
              boxes  |-> Append(st.boxes, Box("warning", tree[i].name)),
              writes |-> Append(st.writes, attempt)]

\* The loop over the classes from the k-th on.  st holds the disk, the
\* message boxes shown and the record of the writes so far; a class whose
\* file cannot be opened for writing gets a warning and the loop goes on.
RECURSIVE SplitLoop(_, _, _, _, _, _, _)
SplitLoop(path, noWrite, source, tree, classes, k, st) ==
    IF k > Len(classes) THEN st
    ELSE
    LET i             == classes[k]
        class_content == get_source_segment(source, tree, i)
        imports       == get_class_imports(source, tree, i)
        new_content   == Join(imports \o <<EmptyString, class_content>>)
        target        == new_file_path(path, tree[i].name)
        attempt       == [node |-> i, path |-> target, text |-> new_content,
                          ok |-> target \notin noWrite]
    IN  SplitLoop(path, noWrite, source, tree, classes, k + 1,
            IF attempt.ok
            THEN [disk   |-> WriteFile(st.disk, target, new_content),
                  boxes  |-> st.boxes,
                  writes |-> Append(st.writes, attempt)]
            ELSE [disk   |-> st.disk,
                  boxes  |-> Append(st.boxes, Box("warning", tree[i].name)),
                  writes |-> Append(st.writes, attempt)])

\* A plausible slip: the classes of the module body only
\* (ast.iter_child_nodes in place of ast.walk).
ClassDefs_toplevel(tree) ==
    SelectSeq(Children(tree, 0), LAMBDA i : tree[i].kind = "ClassDef")

\* A plausible slip: every definition, the functions too.
ClassDefs_containers(tree) ==
    SelectSeq(ast_walk(tree, 0), LAMBDA i : IsContainer(tree[i]))

\* The ClassDef nodes in ast.walk order.
ClassDefs(tree) == SelectSeq(ast_walk(tree, 0), LAMBDA i : tree[i].kind = "ClassDef")

\* A plausible slip: success is announced only for a Python file all of
\* whose classes were written.
split_classes_strict(cur, d, noWrite) ==
    LET nothing == [disk |-> d, boxes |-> <<>>, writes |-> <<>>]
        failed  == [nothing EXCEPT !.boxes = <<Box("critical", "split")>>]
        done(st) == IF st.boxes = <<>>
                    THEN [st EXCEPT !.boxes = Append(@, Box("information", "split"))]
                    ELSE st
    IN  IF cur = Unset THEN nothing
        ELSE IF cur \notin DOMAIN d \/ ~d[cur].readable THEN failed
        ELSE IF ~endswith_py(cur) THEN nothing
        ELSE LET parsed == ast_parse(d[cur].content)
             IN  IF parsed.raised # "none" THEN failed
                 ELSE done(SplitLoop(cur, noWrite, SourceText(parsed.tree), parsed.tree,
                                     ClassDefs(parsed.tree), 1, nothing))

\* split_classes(): the disk, the message boxes and the writes it leaves.
\* cur is self.current_file, Unset while the attribute does not exist.
split_classes(cur, d, noWrite) ==
    LET nothing == [disk |-> d, boxes |-> <<>>, writes |-> <<>>]
        failed  == [nothing EXCEPT !.boxes = <<Box("critical", "split")>>]
        done(st) == [st EXCEPT !.boxes = Append(@, Box("information", "split"))]
    IN  IF cur = Unset THEN nothing
        ELSE IF cur \notin DOMAIN d \/ ~d[cur].readable THEN failed
        ELSE IF ~endswith_py(cur) THEN done(nothing)
        ELSE LET parsed == ast_parse(d[cur].content)
             IN  IF parsed.raised # "none" THEN failed
                 ELSE done(SplitLoop(cur, noWrite, SourceText(parsed.tree), parsed.tree,
                                     ClassDefs(parsed.tree), 1, nothing))

\* ------------------------------------------------ the splitter's inputs

\* Most AST nodes of a Python source that is split.
MaxSplitNodes == 3

\* Most presses of the split button.
MaxSplits == 1

\* Two of the class names differ by case only.
ClassNames == {"A", "a", "Store"}

\* A class is plain or decorated with an imported name: @List.
SplitDecoratorLists == {<<>>, <<NameDeco("List")>>}

\* As NextStmts, with the names that matter to the splitter.
SplitStmts(body, budget) ==
    LET parents == OpenBodies(body, Len(body))
    IN  IF body # <<>> /\ body[Len(body)].kind = "Invalid" THEN {}
        ELSE
        {Stmt("Invalid", "", <<>>, <<>>, p) : p \in parents} \cup
        {Stmt("ClassDef", n, <<>>, d, p) :
            n \in ClassNames, d \in {l \in SplitDecoratorLists : Len(l) <= budget - 1},
            p \in parents}
        \cup {Stmt("FunctionDef", "f", <<>>, <<>>, p) : p \in parents}
        \cup {Stmt("Import", "", <<"os", "re">>, <<>>, p) : p \in parents}
        \cup {Stmt("ImportFrom", "typing", <<"List", "Dict">>, <<>>, p) : p \in parents}

\* The names of the files that are split.
SplitNames == { <<"a", "py">>, <<"a", "tar", "py">>, <<"", "py">>, <<"a", "ts">> }

NoFiles == [p \in {} |-> p]

\* d is a disk with the one readable file `path`, a Python source that
\* starts with `body` and has at most `budget` AST nodes more.
RECURSIVE IsSplitDisk(_, _, _, _)
IsSplitDisk(d, path, body, budget) ==
    \/ d = (path :> DiskFile(TRUE, PyContent(body)))
    \/ /\ budget > 0
       /\ \E nd \in SplitStmts(body, budget) :
             IsSplitDisk(d, path, Append(body, nd), budget - 1 - Len(nd.decorator_list))

\* The file of full size is a.py; the file may also be unreadable or gone.
IsSplitInput(cur, d) ==
    \/ cur = Unset /\ d = NoFiles
    \/ cur = <<"a", "py">> /\ IsSplitDisk(d, cur, <<>>, MaxSplitNodes)
    \/ cur \in SplitNames \ {<<"a", "py">>} /\ IsSplitDisk(d, cur, <<>>, MaxOther)
    \/ cur \in SplitNames /\ d = (cur :> DiskFile(FALSE, NoContent))
    \/ cur \in SplitNames /\ d = NoFiles

\* The files that cannot be opened for writing: none, or the one that the
\* classes A and a are written to.
Unwritables(cur) ==
    IF cur = Unset THEN {{}} ELSE {{}, {new_file_path(cur, "A")}}

\* ------------------------------------------------------ the state machine

\* No main window: the analyzer is called on its own.
NoWindow ==
    /\ current_file = Unset
    /\ start_enabled = FALSE
    /\ workers = <<>>
    /\ app = "running"
    /\ tree_widget = [items |-> <<>>, current |-> 0]
    /\ metrics = <<>>
    /\ file_info = Unset
    /\ progress_bar = 0
    /\ boxes = <<>>
    /\ disk = NoFiles
    /\ unwritable = {}
    /\ writes = <<>>
    /\ splits = 0

Init ==
    /\ program \in Programs
    /\ IsFile(file_path, readable, content)
    /\ pc = "ready"
    /\ elements = <<>>
    /\ fault = "none"
    /\ log = <<>>
    /\ NoWindow

\* One call of CodeAnalyzer.analyze_file by its caller.
AnalyzeFile ==
    /\ pc = "ready"
    /\ LET r == analyze_file(program, file_path, readable, content)
       IN  /\ pc' = IF r.raised = "none" THEN "returned" ELSE "raised"
           /\ elements' = r.elements
           /\ fault' = r.raised
           /\ log' = r.log
    /\ UNCHANGED <<program, file_path, readable, content>>
    /\ UNCHANGED windowVars

Next == AnalyzeFile

Spec == Init /\ [][Next]_vars

TypeOK ==
    /\ program \in Programs
    /\ file_path \in FileNames
    /\ readable \in BOOLEAN
    /\ pc \in {"ready", "returned", "raised"}
    /\ fault \in {"none", "OSError", "TypeError", "IndexError", "AttributeError"}

\* ------------------------------------- the state machine of the splitter

\* No call of the analyzer of its own.
NoCall ==
    /\ file_path = <<"a">>
    /\ readable = FALSE
    /\ content = NoContent
    /\ pc = "idle"
    /\ elements = <<>>
    /\ fault = "none"
    /\ log = <<>>

\* The window with a file selected or none, before the split button is
\* pressed; some of the files the splitter will name cannot be written.
\* split_classes is the same text in both programs and never touches a
\* CodeElement, so one of them stands for both.
InitSplit ==
    /\ program = "main_window"
    /\ NoCall
    /\ current_file \in {Unset} \cup SplitNames
    /\ IsSplitInput(current_file, disk)
    /\ unwritable \in Unwritables(current_file)
    /\ start_enabled = (current_file # Unset)
    /\ workers = <<>>
    /\ app = "running"
    /\ tree_widget = [items |-> <<>>, current |-> 0]
    /\ metrics = <<>>
    /\ file_info = Unset
    /\ progress_bar = 0
    /\ boxes = <<>>
    /\ writes = <<>>
    /\ splits = 0

\* The split button is pressed: one run of split_classes.
SplitClasses ==
    /\ app = "running"
    /\ splits < MaxSplits
    /\ LET r == split_classes(current_file, disk, unwritable)
       IN  /\ disk' = r.disk
           /\ boxes' = boxes \o r.boxes
           /\ writes' = writes \o r.writes
    /\ splits' = splits + 1
    /\ UNCHANGED callVars
    /\ UNCHANGED <<current_file, start_enabled, workers, app, tree_widget,
                   metrics, file_info, progress_bar, unwritable>>

NextSplit == SplitClasses

SpecSplit == InitSplit /\ [][NextSplit]_vars

\* ------------------------------------ the state machine of the window

\* Most workers started in one run of the program.
MaxWorkers == 2

\* The files the file dialog offers: a Python file with a class and a
\* method, an Angular component, and a JavaScript file.
GuiDisk ==
    (<<"a", "py">> :> DiskFile(TRUE, PyContent(
        <<Stmt("ClassDef", "A", <<>>, <<>>, 0), Stmt("FunctionDef", "f", <<>>, <<>>, 1)>>)))
    @@ (<<"a", "ts">> :> DiskFile(TRUE, TextContent(
        <<(<<"@Component(">>), <<"export", "class", "Widget", "{">>>>)))
    @@ (<<"a", "js">> :> DiskFile(TRUE, TextContent(<<(<<>>)>>)))

\* MainWindow(): no file selected, the start button disabled, nothing shown.
InitGui ==
    /\ program \in Programs
    /\ NoCall
    /\ current_file = Unset
    /\ start_enabled = FALSE
    /\ workers = <<>>
    /\ app = "running"
    /\ tree_widget = [items |-> <<>>, current |-> 0]
    /\ metrics = <<>>
    /\ file_info = Unset
    /\ progress_bar = 0
    /\ boxes = <<>>
    /\ disk = GuiDisk
    /\ unwritable = {}
    /\ writes = <<>>
    /\ splits = 0

\* A select_file that stores whatever the dialog returned, the empty answer
\* of a cancelled dialog included.
select_file_always(cur, enabled, f) ==
    [current_file |-> f, start_enabled |-> TRUE]

\* select_file: the dialog returns f, the empty string (Unset) when it was
\* cancelled; only a non-empty answer is stored and enables the start button.
select_file(cur, enabled, f) ==
    IF f # Unset
    THEN [current_file |-> f, start_enabled |-> TRUE]
    ELSE [current_file |-> cur, start_enabled |-> enabled]

\* select_file(): the dialog returns a path, or nothing when it is
\* cancelled.
SelectFile ==
    /\ app = "running"
    /\ \E f \in DOMAIN GuiDisk \cup {Unset} :
          LET r == select_file(current_file, start_enabled, f)
          IN  current_file' = r.current_file /\ start_enabled' = r.start_enabled
    /\ UNCHANGED callVars
    /\ UNCHANGED <<workers, app, tree_widget, metrics, file_info, progress_bar,
                   boxes, disk, unwritable, writes, splits>>

\* AnalysisWorker(self.analyzer, self.current_file), started.
Worker(path) == [file_path |-> path, state |-> "running", result |-> <<>>, order |-> 0]

\* start_analysis(): the start button is pressed.  Nothing looks at the
\* worker of an earlier press.  self.worker is bound anew, which lets go of
\* the only reference to the earlier QThread: when its thread has not
\* finished, the program is aborted by Qt or the thread lives on.
StartAnalysis ==
    /\ app = "running"
    /\ start_enabled
    /\ Len(workers) < MaxWorkers
    /\ \/ /\ workers' = Append(workers, Worker(current_file))
          /\ UNCHANGED app
       \/ /\ workers # <<>>
          /\ workers[Len(workers)].state = "running"
          /\ app' = "aborted"
          /\ UNCHANGED workers
    /\ UNCHANGED callVars
    /\ UNCHANGED <<current_file, start_enabled, tree_widget, metrics, file_info,
                   progress_bar, boxes, disk, unwritable, writes, splits>>

\* The number of `finished` signals emitted so far.
Emitted == Cardinality({w \in 1..Len(workers) : workers[w].order > 0})

\* AnalysisWorker.run() in the worker's thread: analyze_file, and then
\* finished.emit(elements), which queues the call of update_ui for the
\* main thread.  An exception of analyze_file leaves run() before the emit;
\* the unhandled exception ends the thread and may end the program.
WorkerRun(w) ==
    /\ app = "running"
    /\ workers[w].state = "running"
    /\ LET path == workers[w].file_path
           r    == analyze_file(program, path, disk[path].readable, disk[path].content)
       IN  IF r.raised = "none"
           THEN /\ workers' = [workers EXCEPT ![w].state = "emitted",
                                              ![w].result = r.elements,
                                              ![w].order = Emitted + 1]
                /\ UNCHANGED app
           ELSE /\ workers' = [workers EXCEPT ![w].state = "died"]
                /\ app' \in {"running", "aborted"}
    /\ UNCHANGED callVars
    /\ UNCHANGED <<current_file, start_enabled, tree_widget, metrics, file_info,
                   progress_bar, boxes, disk, unwritable, writes, splits>>

RECURSIVE SumLen(_, _)
SumLen(es, field) ==
    IF es = <<>> THEN 0 ELSE Len(Head(es)[field]) + SumLen(Tail(es), field)

\* A plausible slip: the average divided out whatever the class count.
Metrics_unguarded(es) ==
    LET total_classes == Len(SelectSeq(es, LAMBDA e : e.type = "class"))
        total_methods == SumLen(es, "methods")
        total_imports == SumLen(es, "imports")
    IN  [total_classes |-> total_classes,
         total_methods |-> total_methods,
         total_imports |-> total_imports,
         average       |-> <<total_methods, total_classes>>]

\* The metrics text of update_ui: the three totals and the average as the
\* quotient it is computed from.
Metrics(es) ==
    LET total_classes == Len(SelectSeq(es, LAMBDA e : e.type = "class"))
        total_methods == SumLen(es, "methods")
        total_imports == SumLen(es, "imports")
    IN  [total_classes |-> total_classes,
         total_methods |-> total_methods,
         total_imports |-> total_imports,
         average       |-> IF total_classes > 0
                           THEN <<total_methods, total_classes>> ELSE <<0, 1>>]

\* lines.index(min(lines)): the first item with the least line number.
FirstMinLine(es) ==
    IF es = <<>> THEN 0
    ELSE CHOOSE k \in 1..Len(es) :
            /\ \A m \in 1..Len(es) : es[k].line_number <= es[m].line_number
            /\ \A m \in 1..(k - 1) : es[m].line_number > es[k].line_number

\* update_ui(elements) in the main thread, for the oldest queued signal.
\* The file information is read from self.current_file at this moment.
UpdateUi(w) ==
    /\ app = "running"
    /\ workers[w].state = "emitted"
    /\ \A v \in 1..Len(workers) :
          workers[v].state = "emitted" => workers[w].order <= workers[v].order
    /\ workers' = [workers EXCEPT ![w].state = "delivered"]
    /\ tree_widget' = [items |-> workers[w].result, current |-> FirstMinLine(workers[w].result)]
    /\ metrics' = Metrics(workers[w].result)
    /\ file_info' = current_file
    /\ progress_bar' = 100
    /\ UNCHANGED callVars
    /\ UNCHANGED <<current_file, start_enabled, app, boxes, disk, unwritable,
                   writes, splits>>

NextGui ==
    \/ SelectFile
    \/ StartAnalysis
    \/ \E w \in 1..Len(workers) : WorkerRun(w)
    \/ \E w \in 1..Len(workers) : UpdateUi(w)
    \/ SplitClasses

SpecGui == InitGui /\ [][NextGui]_vars

\* ------------------------------- one analysis from start to display

\* The window with a file selected and the start button pressed: the
\* worker's run() calls analyze_file (AnalyzeFile) and emits what it
\* returns, which update_ui then displays.
InitShow ==
    /\ program \in Programs
    /\ IsFile(file_path, readable, content)
    /\ pc = "ready"
    /\ elements = <<>>
    /\ fault = "none"
    /\ log = <<>>
    /\ current_file = file_path
    /\ start_enabled = TRUE
    /\ workers = <<>>
    /\ app = "running"
    /\ tree_widget = [items |-> <<>>, current |-> 0]
    /\ metrics = <<>>
    /\ file_info = Unset
    /\ progress_bar = 0
    /\ boxes = <<>>
    /\ disk = NoFiles
    /\ unwritable = {}
    /\ writes = <<>>
    /\ splits = 0

\* update_ui(elements) for the list the run emitted; a run left by an
\* exception emits nothing.
ShowElements ==
    /\ pc = "returned"
    /\ progress_bar = 0
    /\ tree_widget' = [items |-> elements, current |-> FirstMinLine(elements)]
    /\ metrics' = Metrics(elements)
    /\ file_info' = current_file
    /\ progress_bar' = 100
    /\ UNCHANGED callVars
    /\ UNCHANGED <<current_file, start_enabled, workers, app, boxes, disk,
                   unwritable, writes, splits>>

NextShow == AnalyzeFile \/ ShowElements

SpecShow == InitShow /\ [][NextShow]_vars

\* ============================================================== the claims

Analysed == pc # "ready"

ValidPython(c) ==
    c.form = "python" /\ \A k \in 1..Len(c.body) : c.body[k].kind # "Invalid"

ClassNodes(tree) == {i \in 1..Len(tree) : tree[i].kind = "ClassDef"}

\* The class definition a record of the Python strategy describes: the one
\* whose class keyword is on the record's line.
RecordOf(tree, e) == {i \in ClassNodes(tree) : lineno(tree, i) = e.line_number}

\* C1: for every valid Python source with N class definitions (top-level
\* and nested), analysing it as a .py file returns exactly N records, one
\* per class definition, each of type 'class'.
C1_ExactlyOneRecordPerClass ==
    (Analysed /\ readable /\ file_path \in PyNames /\ ValidPython(content)) =>
        /\ pc = "returned"
        /\ Len(elements) = Cardinality(ClassNodes(content.body))
        /\ \A k \in 1..Len(elements) : elements[k].type = "class"
        /\ \A i \in ClassNodes(content.body) :
              \E k \in 1..Len(elements) :
                 /\ elements[k].line_number = lineno(content.body, i)
                 /\ elements[k].name = content.body[i].name

\* With the constructor of scripts/generator.py the count of C1 is exact.
C1_HoldsWithDataclass ==
    program = "generator" => C1_ExactlyOneRecordPerClass

\* C2: when the text of a .py file is not valid Python, the parse failure
\* is caught (and printed) and the call returns the empty sequence; no
\* exception reaches the caller.
C2_ParseFailureReturnsEmpty ==
    (Analysed /\ readable /\ file_path \in PyNames /\ ~ValidPython(content)) =>
        /\ pc = "returned"
        /\ fault = "none"
        /\ elements = <<>>
        /\ log = <<"SyntaxError">>

C2_Witness ==
    /\ pc = "returned"
    /\ readable /\ file_path \in PyNames /\ ~ValidPython(content)
    /\ ClassNodes(content.body) # {}
    /\ log = <<"SyntaxError">>

\* C3: for every path, content and extension analyze_file returns a
\* (possibly empty) sequence; no fault ever escapes to the caller.
C3_NoFaultEscapes == Analysed => (pc = "returned" /\ fault = "none")

\* C4: analysing a .js or .jsx file completes without raising and returns
\* a record sequence.
C4_JavascriptReturns ==
    (Analysed /\ readable /\ file_path \in JsNames) => (pc = "returned" /\ fault = "none")

\* C5: for every readable file whose extension is none of .py .ts .tsx .js
\* .jsx (no extension, another case, a hidden file, a trailing dot)
\* analyze_file returns the empty sequence, whatever the content.
C5_OtherExtensionEmpty ==
    (Analysed /\ readable /\ file_path \in OtherNames) =>
        /\ pc = "returned"
        /\ fault = "none"
        /\ elements = <<>>

C5_Witness ==
    /\ pc = "returned"
    /\ program = "generator"
    /\ file_path = <<"", "py">>
    /\ readable
    /\ ValidPython(content) /\ ClassNodes(content.body) # {}
    /\ elements = <<>>

\* Line i of the text holds the signature of table entry j.
SignatureAt(c, i, j) == AngularPatterns[j].text \in Range(c.lines[i])

\* The name a line declares with `class NAME` or `export class NAME`, or
\* the placeholder when it declares none.
DeclaredName(line) ==
    IF \E p \in 1..(Len(line) - 1) : line[p] = "class" /\ line[p + 1] \in WordTokens
    THEN LET p == CHOOSE q \in 1..(Len(line) - 1) :
                      line[q] = "class" /\ line[q + 1] \in WordTokens
         IN  line[p + 1]
    ELSE "Unknown"

\* C6: when a line matching a signature is the final line of the file, no
\* record is produced for that match and no index error is raised; the
\* records for matches on earlier lines are still returned.
C6_FinalLineSignatureGuarded ==
    (/\ Analysed /\ readable /\ file_path \in TsNames
     /\ \E j \in 1..Len(AngularPatterns) : SignatureAt(content, Len(content.lines), j)) =>
        /\ pc = "returned"
        /\ fault = "none"
        /\ \A k \in 1..Len(elements) : elements[k].line_number # Len(content.lines)
        /\ \A i \in 1..(Len(content.lines) - 1) : \A j \in 1..Len(AngularPatterns) :
              SignatureAt(content, i, j) =>
                 \E k \in 1..Len(elements) :
                    elements[k].line_number = i /\ elements[k].type = AngularPatterns[j].key

\* C7: every line that matches the signature with key k and is followed by
\* a line yields a record of kind k whose name is the NAME of the
\* `class NAME` / `export class NAME` of the following line, or 'Unknown'
\* when that line declares no class.
C7_RecordForEverySignature ==
    (Analysed /\ readable /\ file_path \in TsNames) =>
        \A i \in 1..(Len(content.lines) - 1) : \A j \in 1..Len(AngularPatterns) :
           SignatureAt(content, i, j) =>
              \E k \in 1..Len(elements) :
                 /\ elements[k].line_number = i
                 /\ elements[k].type = AngularPatterns[j].key
                 /\ elements[k].name = DeclaredName(content.lines[i + 1])

\* C7 fails only through the missing constructor (C1) and the unguarded
\* lookahead (C6): with the constructor, and no fault, every record is there.
C7_HoldsWithoutFault ==
    (program = "generator" /\ pc = "returned") => C7_RecordForEverySignature

\* The positions of ds whose decorator is a plain name.
PlainAt(ds) == {j \in 1..Len(ds) : ds[j].kind = "Name"}

\* C8: for every Python class record, `decorators` is exactly the class's
\* plain-name decorators in source order; call and attribute decorators
\* never appear in it.
C8_PlainNameDecoratorsOnly ==
    (Analysed /\ readable /\ file_path \in PyNames) =>
        \A k \in 1..Len(elements) : \A i \in RecordOf(content.body, elements[k]) :
           LET ds    == content.body[i].decorator_list
               found == elements[k].decorators
           IN  /\ Len(found) = Cardinality(PlainAt(ds))
               /\ \A j \in PlainAt(ds) :
                     found[Cardinality({m \in PlainAt(ds) : m <= j})] = ds[j].id
               /\ \A j \in (1..Len(ds)) \ PlainAt(ds) : ds[j].id \notin Range(found)

C8_Witness ==
    /\ pc = "returned" /\ file_path \in PyNames
    /\ \E k \in 1..Len(elements) : \E i \in RecordOf(content.body, elements[k]) :
          /\ content.body[i].decorator_list = <<NameDeco("foo"), CallDeco("bar", <<"x">>)>>
          /\ elements[k].decorators = <<"foo">>

ImportNodes(tree) == {i \in 1..Len(tree) : tree[i].kind \in {"Import", "ImportFrom"}}

\* The number of entries the import statements of the whole file make:
\* one per alias of an `import`, one per `from ... import`.
RECURSIVE FileImportCount(_, _)
FileImportCount(tree, i) ==
    IF i = 0 THEN 0
    ELSE FileImportCount(tree, i - 1)
         + (IF tree[i].kind = "Import" THEN Len(tree[i].names)
            ELSE IF tree[i].kind = "ImportFrom" THEN 1 ELSE 0)

\* C9: all records of one analysis of a Python file carry pairwise equal
\* `imports`: those of the whole file, whatever class the record describes.
C9_ImportsEqualAcrossRecords ==
    (Analysed /\ readable /\ file_path \in PyNames) =>
        /\ \A k, m \in 1..Len(elements) : elements[k].imports = elements[m].imports
        /\ \A k \in 1..Len(elements) :
              /\ Len(elements[k].imports) = FileImportCount(content.body, Len(content.body))
              /\ \A i \in ImportNodes(content.body) :
                    IF content.body[i].kind = "Import"
                    THEN \A n \in Range(content.body[i].names) :
                            <<n>> \in Range(elements[k].imports)
                    ELSE \E t \in Range(elements[k].imports) :
                            /\ Len(t) >= 3 /\ t[1] = "from" /\ t[2] = content.body[i].name

C9_Witness ==
    /\ pc = "returned" /\ file_path \in PyNames
    /\ Len(elements) >= 2
    /\ elements[1].name # elements[2].name
    /\ \E i \in ImportNodes(content.body) : content.body[i].parent # 0
    /\ elements[1].imports # <<>>

\* The function definitions (def or async def) directly in the body of
\* class i.
MethodNodes(tree, i) ==
    {j \in 1..Len(tree) :
        tree[j].parent = i /\ tree[j].kind \in {"FunctionDef", "AsyncFunctionDef"}}

\* C10: for every Python class record, `methods` is exactly the names of
\* the function definitions that are direct children of the class body, in
\* body order; nothing nested deeper is included.
C10_MethodsAreDirectChildren ==
    (Analysed /\ readable /\ file_path \in PyNames) =>
        \A k \in 1..Len(elements) : \A i \in RecordOf(content.body, elements[k]) :
           LET ms == MethodNodes(content.body, i)
           IN  /\ Len(elements[k].methods) = Cardinality(ms)
               /\ \A j \in ms :
                     elements[k].methods[Cardinality({m \in ms : m <= j})]
                        = content.body[j].name

\* For the plain `def` children the list of C10 is exact, in body order;
\* only the `async def` children are missing from it.
PlainMethodNodes(tree, i) ==
    {j \in MethodNodes(tree, i) : tree[j].kind = "FunctionDef"}

C10_HoldsForPlainDef ==
    (Analysed /\ readable /\ file_path \in PyNames) =>
        \A k \in 1..Len(elements) : \A i \in RecordOf(content.body, elements[k]) :
           LET ms == PlainMethodNodes(content.body, i)
           IN  /\ Len(elements[k].methods) = Cardinality(ms)
               /\ \A j \in ms :
                     elements[k].methods[Cardinality({m \in ms : m <= j})]
                        = content.body[j].name

\* ------------------------------------------------- the class splitter

\* The split button has been pressed and split_classes has run.
SplitDone == splits > 0

\* The selected file is there and can be read.
SourceRead ==
    /\ current_file # Unset
    /\ current_file \in DOMAIN disk
    /\ disk[current_file].readable

\* split_classes got as far as its loop: a readable .py file that parses.
SplitParsed ==
    /\ SourceRead
    /\ endswith_py(current_file)
    /\ ValidPython(disk[current_file].content)

SplitTree == disk[current_file].content.body

\* The files on disk that are not the selected file.
NewFiles == DOMAIN disk \ {current_file}

\* {original_base_name}_{classname_lowercased}.py
ExpectedName(path, className) ==
    LET base == splitext_root(path)
    IN  SubSeq(base, 1, Len(base) - 1)
        \o <<base[Len(base)] \o "_" \o lower(className)>> \o <<"py">>

LoweredNames(tree) == {lower(tree[i].name) : i \in ClassNodes(tree)}

\* C11 (as stated): when every write succeeds, splitting a Python file with
\* N class definitions leaves N new files, one per class definition, each
\* named {original_base_name}_{classname_lowercased}.py.
C11_NFilesForNClasses ==
    (SplitDone /\ SplitParsed /\ unwritable = {}) =>
        /\ Cardinality(NewFiles) = Cardinality(ClassNodes(SplitTree))
        /\ NewFiles = {ExpectedName(current_file, SplitTree[i].name) :
                          i \in ClassNodes(SplitTree)}

\* C11 (amended): when every write succeeds, the new files are exactly the
\* files {original_base_name}_{classname_lowercased}.py of the classes, one
\* per distinct lowercased class name; they are N files when no two of the
\* N classes have the same lowercased name.
C11_OneFilePerLoweredName ==
    (SplitDone /\ SplitParsed /\ unwritable = {}) =>
        /\ NewFiles = {ExpectedName(current_file, SplitTree[i].name) :
                          i \in ClassNodes(SplitTree)}
        /\ Cardinality(NewFiles) = Cardinality(LoweredNames(SplitTree))
        /\ (\A i, j \in ClassNodes(SplitTree) :
                i # j => lower(SplitTree[i].name) # lower(SplitTree[j].name))
           => Cardinality(NewFiles) = Cardinality(ClassNodes(SplitTree))

\* Two classes, one inside the other, with different lowercased names have
\* been split into two files.
C11_Witness ==
    /\ SplitDone /\ SplitParsed /\ unwritable = {}
    /\ \E i, j \in ClassNodes(SplitTree) :
          /\ SplitTree[j].parent = i
          /\ lower(SplitTree[i].name) # lower(SplitTree[j].name)
    /\ Cardinality(NewFiles) = 2

\* C12: the splitter never deletes, truncates or overwrites the selected
\* file: no path it writes is the path of the source, and the source holds
\* after the run what it held before.
C12_SourceLeftAlone ==
    [][SplitClasses =>
        /\ \A p \in DOMAIN disk : p \in DOMAIN disk' /\ (p = current_file => disk'[p] = disk[p])
        /\ \A k \in 1..Len(writes') : writes'[k].path # current_file]_vars

\* Files were written next to the selected file, which is still there.
C12_Witness ==
    /\ SplitDone /\ SplitParsed
    /\ \E k \in 1..Len(writes) : writes[k].ok
    /\ NewFiles # {}
    /\ ClassNodes(SplitTree) # {}

\* C13: a class whose file cannot be written gets a warning and the loop
\* goes on: every class is tried, and every class whose own write does not
\* fail has its file written, wherever it stands among the classes.
C13_FailureSkipsOneClass ==
    (SplitDone /\ SplitParsed) =>
        \A i \in ClassNodes(SplitTree) :
            LET target == ExpectedName(current_file, SplitTree[i].name)
            IN  /\ \E k \in 1..Len(writes) : writes[k].node = i /\ writes[k].path = target
                /\ target \notin unwritable => target \in DOMAIN disk
                /\ target \in unwritable =>
                      /\ Box("warning", SplitTree[i].name) \in Range(boxes)
                      /\ target \notin DOMAIN disk

\* A class whose write failed stands before a class that was written, and
\* another after it.
C13_Witness ==
    /\ SplitDone /\ SplitParsed
    /\ \E k, m, n \in 1..Len(writes) :
          /\ k < m /\ m < n
          /\ ~writes[k].ok /\ writes[m].ok /\ ~writes[n].ok
          /\ writes[m].path \in DOMAIN disk
    /\ Box("information", "split") \in Range(boxes)

\* The selected .py file is read and is not Python.
ParseFails ==
    /\ SourceRead
    /\ endswith_py(current_file)
    /\ disk[current_file].content.form = "python"
    /\ \E k \in 1..Len(SplitTree) : SplitTree[k].kind = "Invalid"

\* C14: when the Python source does not parse, the splitter reports the
\* failure and stops: no file is written, classes before the bad place
\* included, and no success is announced.
C14_ParseFailureWritesNothing ==
    (SplitDone /\ ParseFails) =>
        /\ NewFiles = {}
        /\ writes = <<>>
        /\ boxes # <<>>
        /\ Range(boxes) = {Box("critical", "split")}

\* A source with a class before the place where it stops being Python was
\* split, and the failure was shown.
C14_Witness ==
    /\ SplitDone /\ ParseFails
    /\ ClassNodes(SplitTree) # {}
    /\ Box("critical", "split") \in Range(boxes)
    /\ NewFiles = {}

\* C15: a valid Python file without class definitions: zero files are
\* written and the success notification is shown, and nothing else.
C15_NoClassesNoFiles ==
    (SplitDone /\ SplitParsed /\ ClassNodes(SplitTree) = {}) =>
        /\ NewFiles = {}
        /\ writes = <<>>
        /\ Len(boxes) = splits
        /\ Range(boxes) = {Box("information", "split")}

\* A file of functions and imports, no class, was split.
C15_Witness ==
    /\ SplitDone /\ SplitParsed /\ ClassNodes(SplitTree) = {}
    /\ \E k \in 1..Len(SplitTree) : SplitTree[k].kind = "FunctionDef"
    /\ ImportNodes(SplitTree) # {}
    /\ boxes = <<Box("information", "split")>>

\* The original text of class i, put together from the tree: the line of
\* the class keyword without its indentation, then the lines of everything
\* inside the class as they stand in the file.
RECURSIVE InsideLines(_, _, _)
InsideLines(tree, i, k) ==
    IF k > Len(tree) THEN <<>>
    ELSE (IF IsAncestor(tree, i, k) THEN StmtLines(tree, k) ELSE <<>>)
         \o InsideLines(tree, i, k + 1)

ClassText(tree, i) ==
    <<Line(0, <<"class", tree[i].name>>)>> \o InsideLines(tree, i, i + 1)

\* The lines of a written text before the blank line and the class.
ImportPart(tree, w) ==
    SubSeq(w.text, 1, Len(w.text) - Len(ClassText(tree, w.node)) - 1)

\* The last write that went to the file of write k.
IsLastWriteTo(k) ==
    /\ writes[k].ok
    /\ \A m \in (k + 1)..Len(writes) : ~(writes[m].ok /\ writes[m].path = writes[k].path)

Occurs(name, text) ==
    \E k \in 1..Len(text) : \E t \in 1..Len(text[k].toks) :
        LET word == text[k].toks[t]
        IN  word = name \/ <<name, word>> \in ProperSubstrings

\* C17: an import statement of the file is among the import lines of a
\* class's output exactly when one of the names it imports is a literal
\* substring of the class's extracted text.
C17_ImportIffNameInClass ==
    (SplitDone /\ SplitParsed) =>
        \A k \in 1..Len(writes) : \A m \in ImportNodes(SplitTree) :
            (Line(0, StmtText(SplitTree[m])) \in Range(ImportPart(SplitTree, writes[k])))
            <=> (\E name \in Range(SplitTree[m].names) :
                    Occurs(name, ClassText(SplitTree, writes[k].node)))

\* `import os, re` went into the output of class Store, which never uses
\* it, for the "re" in its name; `from typing import List, Dict` did not.
C17_Witness ==
    /\ SplitDone /\ SplitParsed
    /\ \E k \in 1..Len(writes) :
          /\ writes[k].ok
          /\ ClassText(SplitTree, writes[k].node) = <<Line(0, <<"class", "Store">>)>>
          /\ ImportPart(SplitTree, writes[k]) = <<Line(0, <<"import", "os", "re">>)>>
          /\ \E m \in ImportNodes(SplitTree) : SplitTree[m].kind = "ImportFrom"

\* ------------------------------------------------- the analysis workers

\* The workers that were started and whose result has not been delivered
\* to update_ui.
InFlight == {w \in 1..Len(workers) : workers[w].state \in {"running", "emitted"}}

\* C18: at most one analysis worker is in flight at any time: a second
\* AnalysisWorker is never started while one started before it has not yet
\* delivered its result.
C18_AtMostOneWorkerInFlight == Cardinality(InFlight) <= 1

\* What the analysis of a worker's file returns.
AnalysisOf(w) ==
    LET path == workers[w].file_path
    IN  analyze_file(program, path, GuiDisk[path].readable, GuiDisk[path].content)

\* C19: every started analysis delivers exactly one `finished` notification
\* carrying the whole sequence of records: no run of a worker ends without
\* its notification, and what is notified is all the analysis found.
C19_EveryRunNotifies ==
    \A w \in 1..Len(workers) :
        /\ workers[w].state # "died"
        /\ workers[w].state \in {"emitted", "delivered"} =>
              /\ workers[w].order > 0
              /\ workers[w].result = AnalysisOf(w).elements

\* A run whose analysis returns does notify, once, with the whole sequence.
C19_HoldsWhenAnalysisReturns ==
    \A w \in 1..Len(workers) :
        /\ workers[w].state = "died" => AnalysisOf(w).raised # "none"
        /\ workers[w].state \in {"emitted", "delivered"} =>
              /\ workers[w].order > 0
              /\ AnalysisOf(w).raised = "none"
              /\ workers[w].result = AnalysisOf(w).elements
        /\ \A v \in 1..Len(workers) :
              (v # w /\ workers[v].order > 0) => workers[v].order # workers[w].order

\* ------------------------------------------ the order of the TS records

\* The signature matches of a TypeScript source that have a line behind
\* them, line by line and, within a line, in the order of the table.
RECURSIVE ExpectedFrom(_, _, _)
ExpectedFrom(c, i, j) ==
    IF i > Len(c.lines) - 1 THEN <<>>
    ELSE IF j > Len(AngularPatterns) THEN ExpectedFrom(c, i + 1, 1)
    ELSE (IF SignatureAt(c, i, j) THEN <<(<<i, AngularPatterns[j].key>>)>> ELSE <<>>)
         \o ExpectedFrom(c, i, j + 1)

\* C20: the records of the TypeScript strategy are the signature matches,
\* one record each, none dropped as a duplicate: in ascending line order
\* and, for the matches of one line, in the order component, service,
\* module, pipe.
C20_SignatureRecordsInOrder ==
    (Analysed /\ readable /\ file_path \in TsNames) =>
        [k \in 1..Len(elements) |-> <<elements[k].line_number, elements[k].type>>]
            = ExpectedFrom(content, 1, 1)

\* C20 fails only through the missing constructor (C1) and the unguarded
\* lookahead (C6): where the call returns its records they are in order.
C20_HoldsWithoutFault ==
    (program = "generator" /\ pc = "returned") => C20_SignatureRecordsInOrder

\* ------------------------------------- the fields of the TS records

\* The import lines of a whole TypeScript source: every line whose first
\* word is `import` or `from` and that has more behind it, without the
\* blanks around it, in the order of the lines.
WholeFileImports(c) ==
    LET words(i) == SelectSeq(c.lines[i], LAMBDA t : t # " ")
        at == {i \in 1..Len(c.lines) :
                  Len(words(i)) >= 2 /\ words(i)[1] \in {"import", "from"}}
    IN  [n \in 1..Cardinality(at) |->
            words(CHOOSE i \in at : Cardinality({m \in at : m <= i}) = n)]

\* C21: all records of one analysis of a TypeScript file carry the same
\* `methods` and the same `imports`, the ones of the entire file, and
\* every record has an empty `dependencies`.
C21_FileWideMethodsAndImports ==
    (Analysed /\ readable /\ file_path \in TsNames) =>
        \A k \in 1..Len(elements) :
            /\ elements[k].imports = WholeFileImports(content)
            /\ elements[k].dependencies = {}
            /\ \A m \in 1..Len(elements) :
                  /\ elements[m].methods = elements[k].methods
                  /\ elements[m].imports = elements[k].imports

\* Two records on different lines of a file with an import line behind
\* both of them.
C21_Witness ==
    /\ Analysed /\ readable /\ file_path \in TsNames
    /\ \E k, m \in 1..Len(elements) : elements[k].line_number < elements[m].line_number
    /\ \A k \in 1..Len(elements) : elements[k].imports = <<(<<"import", "X">>)>>
    /\ content.lines[Len(content.lines)] = <<" ", "import", "X">>

\* ------------------------------------------------ the summary counters

\* update_ui has displayed a record sequence.
Shown == progress_bar = 100

\* The entries of one field over all records: one per record and position.
EntriesOf(es, field) ==
    UNION {{<<k, j>> : j \in 1..Len(es[k][field])} : k \in 1..Len(es)}

\* C22: for every displayed record sequence the class count is the number
\* of records of kind 'class', total methods and total imports are the sums
\* of the lengths of `methods` and `imports`, and the average is total
\* methods / class count when there is a class and 0 otherwise: nothing is
\* ever divided by zero.
C22_SummaryCounters ==
    Shown =>
        LET es      == tree_widget.items
            classes == Cardinality({k \in 1..Len(es) : es[k].type = "class"})
            methods == Cardinality(EntriesOf(es, "methods"))
        IN  /\ metrics.total_classes = classes
            /\ metrics.total_methods = methods
            /\ metrics.total_imports = Cardinality(EntriesOf(es, "imports"))
            /\ metrics.average[2] # 0
            /\ IF classes > 0
               THEN metrics.average[1] * classes = methods * metrics.average[2]
               ELSE metrics.average[1] = 0

\* Records with methods and no record of kind 'class' were displayed.
C22_Witness ==
    /\ Shown
    /\ tree_widget.items # <<>>
    /\ \A k \in 1..Len(tree_widget.items) : tree_widget.items[k].type # "class"
    /\ metrics.total_methods > 0
    /\ metrics.average = <<0, 1>>

\* Two classes with one method between them were displayed: average 1/2.
C22_WitnessHalf ==
    /\ Shown
    /\ metrics.total_classes = 2
    /\ metrics.total_methods = 1

\* ------------------------------------------- what the window displays

\* The run whose records update_ui displayed last: the delivered worker
\* whose signal was queued last; 0 when nothing has been displayed.
DisplayedRun ==
    LET delivered == {w \in 1..Len(workers) : workers[w].state = "delivered"}
    IN  IF delivered = {} THEN 0
        ELSE CHOOSE w \in delivered :
                \A v \in delivered : workers[v].order <= workers[w].order

\* C23: the records of an earlier analysis are discarded at the start of
\* the next one: once a later analysis has been started, no record of an
\* earlier run is displayed any more.
C23_EarlierRecordsDiscarded ==
    (DisplayedRun # 0 /\ DisplayedRun < Len(workers)) => tree_widget.items = <<>>

\* What is displayed is never a mixture: it is the whole result of one
\* run, the one delivered last, and nothing before the first delivery.
C23_NoMergeAcrossRuns ==
    tree_widget.items =
        IF DisplayedRun = 0 THEN <<>> ELSE workers[DisplayedRun].result

\* ----------------------------------- the order of the prepended imports

\* The import statements of which a name is in the text of class i.
IncludedImports(tree, i) ==
    {m \in ImportNodes(tree) :
        \E name \in Range(tree[m].names) : Occurs(name, ClassText(tree, i))}

\* The texts of the import statements S in the order they stand in the file.
InFileOrder(tree, S) ==
    [n \in 1..Cardinality(S) |->
        Line(0, StmtText(tree[CHOOSE m \in S : Cardinality({v \in S : v <= m}) = n]))]

\* C24: in every split output the prepended import statements stand in
\* file order, also when some of them are nested in functions or classes.
C24_ImportsInFileOrder ==
    (SplitDone /\ SplitParsed) =>
        \A k \in 1..Len(writes) :
            ImportPart(SplitTree, writes[k])
                = InFileOrder(SplitTree, IncludedImports(SplitTree, writes[k].node))

\* The order is the file's when every import statement is at module level.
C24_HoldsForTopLevelImports ==
    (/\ SplitDone /\ SplitParsed
     /\ \A m \in ImportNodes(SplitTree) : SplitTree[m].parent = 0)
        => C24_ImportsInFileOrder

\* C25: whenever update_ui has displayed a record sequence, the file
\* information beside it describes the file the records were extracted
\* from, whatever the order of select_file, start_analysis and the end of
\* the workers.
C25_FileInfoOfAnalysedFile ==
    (Shown /\ DisplayedRun # 0) => file_info = workers[DisplayedRun].file_path


\* C26: the start button is enabled only while a file is selected, so no
\* worker is ever started without a path; a cancelled dialog leaves the
\* selected file and the button as they were; and Split Classes pressed
\* before any file was selected writes no file and shows no notification.
C26_NothingWithoutFile ==
    /\ start_enabled => current_file # Unset
    /\ \A i \in 1..Len(workers) : workers[i].file_path # Unset
    /\ select_file(current_file, start_enabled, Unset)
          = [current_file |-> current_file, start_enabled |-> start_enabled]
    /\ (current_file = Unset /\ splits > 0)
          => boxes = <<>> /\ writes = <<>> /\ disk = GuiDisk

\* Split Classes was pressed in a window where no file was ever selected.
C26_Witness ==
    current_file = Unset /\ splits > 0 /\ ~start_enabled /\ workers = <<>>

\* An analysis was started, on the selected file.
C26_WitnessStarted ==
    Len(workers) > 0 /\ workers[1].file_path = current_file


\* The boxes of one kind among those shown.
BoxesOfKind(kind) == SelectSeq(boxes, LAMBDA b : b.kind = kind)

\* C27: every invocation of split_classes on a selected, readable file whose
\* parse does not fail ends with the success notification, shown once and
\* last, and shows no error: also when one or all of the per-class writes
\* failed, and when the file is not a .py file.
C27_SuccessShownRegardless ==
    (SplitDone /\ SourceRead /\ ~ParseFails) =>
        /\ boxes # <<>>
        /\ boxes[Len(boxes)] = Box("information", "split")
        /\ Len(BoxesOfKind("information")) = splits
        /\ BoxesOfKind("critical") = <<>>
        /\ Len(BoxesOfKind("warning")) = Len(SelectSeq(writes, LAMBDA w : ~w.ok))

\* Every class of a parsed file failed to be written, and success is shown.
C27_Witness ==
    /\ SplitDone /\ SplitParsed
    /\ Len(writes) >= 2
    /\ \A k \in 1..Len(writes) : ~writes[k].ok
    /\ boxes[Len(boxes)] = Box("information", "split")

\* A readable file that is not a .py file: nothing is parsed or written and
\* success is shown.
C27_WitnessNotPython ==
    /\ SplitDone /\ SourceRead /\ ~endswith_py(current_file)
    /\ writes = <<>>
    /\ boxes = <<Box("information", "split")>>

====
